---- MODULE Spec2Model ----
(***************************************************************************)
(* Town of Shadows backend (src/main.py): one room's session as a state    *)
(* machine.  The room dictionary of create_room_obj is the state; the      *)
(* REST / WebSocket handlers and the steps of the phase_controller task    *)
(* are the actions.  asyncio runs one coroutine at a time and switches     *)
(* only at an await, so every action is the code between two suspension    *)
(* points.                                                                 *)
(*                                                                         *)
(* Participants are identified by their seat: the code looks players up by *)
(* name, and the names "Player i" are one per seat.                        *)
(***************************************************************************)
EXTENDS Integers, Sequences, FiniteSets, TLC

\* ----- bounds of the model -----
NumSeats == 3
MaxQueue == 1
MaxNightQueue == 3
MaxDay == 1
MaxPendingStarts == 1
NumVoters == 2

Seats == 1..NumSeats
Voters == 1..NumVoters

\* ----- ROLE POOLS (the roles the rosters of the model draw from) -----
TOWN_POOL == {"Doctor", "Detective", "Bodyguard", "Vigilante", "Jailor", "Soldier",
              "Cupid", "Gossip", "Lookout", "Mayor", "Investigator", "Escort",
              "Medium", "Villager"}
MAFIA_POOL == {"Godfather", "Mafioso", "Janitor", "Spy", "Beastman", "Consigliere",
               "Blackmailer", "Framer"}
CULT_POOL == {"Cult Leader", "Fanatic", "Infiltrator", "Prophet", "Acolyte"}
NEUTRAL_POOL == {"Jester", "Executioner", "Serial Killer", "Arsonist", "Survivor",
                 "Amnesiac", "Witch", "Guardian Angel"}

role_to_faction(role) ==
    IF role \in TOWN_POOL THEN "Town"
    ELSE IF role \in MAFIA_POOL THEN "Mafia"
    ELSE IF role \in CULT_POOL THEN "Cult"
    ELSE IF role \in NEUTRAL_POOL THEN "Neutral"
    ELSE "Unknown"

\* The value None of Python: for an optional role, choice or winner, and for
\* an optional player name (names are seats here, so no seat).
None == "None"
NoName == 0

\* Two values a message can carry where a player's name is expected: the
\* string "abstain" (or any other string that is no player's name), and a
\* JSON array, which Python cannot hash.
abstain == NumSeats + 1
Unhashable == NumSeats + 2

\* One entry of room["players"] as create_room_obj builds it.
NewPlayer(r) ==
    [role |-> r, faction |-> role_to_faction(r), alive |-> TRUE, revealed |-> FALSE,
     soldier_used |-> FALSE, jailor_has_execute |-> (r = "Jailor"),
     contacted |-> FALSE]

\* sample_roles_for_game shuffles its roles, so any role can sit at any seat.
\* The model's rosters are NumSeats consecutive roles of this casting list,
\* from any offset.
Casting == <<"Soldier", "Godfather", "Jailor", "Villager", "Beastman",
             "Cult Leader", "Jester">>

RosterAt(k) ==
    [s \in Seats |-> NewPlayer(Casting[((k + s - 2) % Len(Casting)) + 1])]

Rosters == {RosterAt(k) : k \in 1..Len(Casting)}

\* ----- queued night actions -----
\* One entry of room["actions"]: the dictionary queue_action and the
\* player_action message append.
Action(actor, target, type, actor_role) ==
    [actor |-> actor, target |-> target, type |-> type, actor_role |-> actor_role]

KillTypes == {"mafia_kill", "serial_kill", "vigilante_shot", "beast_kill"}

\* room["cleaned_bodies"]: created empty and never written by any handler.
cleaned_bodies == {}

\* room["lovers"]: created empty and never written by any handler.
lovers == <<>>

\* Indices of the queued actions of one type, in queue order.
OfType(acts, T) == {i \in 1..Len(acts) : acts[i].type \in T}

\* next((p for p in room["players"] if p["name"] == name), None) finds a seat.
Found(ps, name) == name \in DOMAIN ps
FoundAlive(ps, name) == name \in DOMAIN ps /\ ps[name].alive

\* "gather info": the sets and maps apply_player_actions collects first.
protected_by_doctor(acts) == {acts[i].target : i \in OfType(acts, {"doctor_heal"})}

jailed(acts) == {acts[i].target : i \in OfType(acts, {"jail"})}

\* bodyguard_map[target] = actor: a later entry for a target overwrites.
bodyguard_map(acts) ==
    LET idx == OfType(acts, {"bodyguard_protect"})
        last(t) == CHOOSE i \in idx : /\ acts[i].target = t
                                      /\ \A j \in idx : acts[j].target = t => j <= i
    IN [t \in {acts[i].target : i \in idx} |-> acts[last(t)].actor]

\* "gather info" raises TypeError when it adds an unhashable target to a set
\* (doctor_heal, jail) or uses it as a dictionary key (bodyguard_protect).
GatherRaises(acts) ==
    \E i \in OfType(acts, {"doctor_heal", "jail", "bodyguard_protect"}) :
        acts[i].target = Unhashable

\* A message apply_player_actions sends (to one player or to all), with the
\* seat it is about and the index of the queued action that caused it.
Event(ev, seat, cause) == [ev |-> ev, seat |-> seat, cause |-> cause]

\* The running result of a resolution: the roster and the messages sent.
Sent(st, ev, seat, cause) == [st EXCEPT !.log = @ \cup {Event(ev, seat, cause)}]

\* ----- contact pass: one contact event -----
ContactOne(st, c, i) ==
    IF ~(Found(st.ps, c.actor) /\ Found(st.ps, c.target)) THEN st
    ELSE IF c.actor_role = "Fanatic" THEN
        IF st.ps[c.target].faction = "Cult"
        THEN Sent([st EXCEPT !.ps[c.target].contacted = TRUE,
                             !.ps[c.actor].contacted = TRUE],
                  "contacted", c.actor, i)
        ELSE st
    ELSE IF c.actor_role = "Spy" THEN
        IF st.ps[c.target].faction = "Mafia"
        THEN Sent([st EXCEPT !.ps[c.actor].contacted = TRUE], "contacted", c.actor, i)
        ELSE Sent(st, "investigated", c.actor, i)
    ELSE IF c.actor_role = "Beastman" THEN
        Sent([st EXCEPT !.ps[c.actor].contacted = TRUE], "contacted", c.actor, i)
    ELSE st

\* ----- conversion pass: one cult_convert -----
\* A conversion that moves the target to the Cult and leaves its role.
ConvertOneFactionOnly(st, conv, i) ==
    IF FoundAlive(st.ps, conv.target)
       /\ st.ps[conv.target].role \notin {"Godfather", "Mafioso", "Beastman", "Soldier"}
    THEN Sent([st EXCEPT !.ps[conv.target].faction = "Cult"],
              "converted", conv.target, i)
    ELSE st

ConvertOne(st, conv, i) ==
    IF FoundAlive(st.ps, conv.target)
       /\ st.ps[conv.target].role \notin {"Godfather", "Mafioso", "Beastman", "Soldier"}
    THEN Sent([st EXCEPT !.ps[conv.target].faction = "Cult",
                         !.ps[conv.target].role = "Acolyte"],
              "converted", conv.target, i)
    ELSE st

\* ----- Jailor execute: one jail_execute -----
\* An execute that never costs the Jailor anything.
JailorNeverLosesExecute(st, je) == FALSE

\* The victim's faction that decides the demotion is read after the kill.
JailorLosesExecute(st, je) == st.ps[je.target].faction # "Mafia"

ExecuteOne(st, je, i) ==
    IF Found(st.ps, je.actor) /\ FoundAlive(st.ps, je.target)
    THEN LET dead == [st EXCEPT !.ps[je.target].alive = FALSE,
                                !.ps[je.target].revealed =
                                    IF je.target \notin cleaned_bodies THEN TRUE ELSE @]
             told == Sent(dead, "executed", je.target, i)
         IN IF JailorLosesExecute(told, je)
            THEN Sent([told EXCEPT !.ps[je.actor].jailor_has_execute = FALSE,
                                   !.ps[je.actor].role = "Villager",
                                   !.ps[je.actor].faction = "Town"],
                      "demoted", je.actor, i)
            ELSE told
    ELSE st

\* ----- kill pass: one queued kill -----
\* bypass = (actor_role == "Beastman")
Bypass(k) == k.actor_role = "Beastman"

\* A kill pass that does not look at the jailed set.
JailNeverBlocks(acts, k) == FALSE

\* "if jailed": the kill is dropped, the victim is told.
JailBlocks(acts, k) == k.target \in jailed(acts)

\* A kill pass that does not look at the doctor's set.
DoctorNeverBlocks(acts, k) == FALSE

\* "Doctor protection"
DoctorBlocks(acts, k) == k.target \in protected_by_doctor(acts) /\ ~Bypass(k)

\* "Soldier special: one-time self-protection" applies to this victim.
SoldierSpecial(p) == p.role = "Soldier" /\ ~p.soldier_used

KillOne(st, acts, k, i) ==
    LET v == k.target
        bgm == bodyguard_map(acts)
    IN IF ~FoundAlive(st.ps, v) THEN st
       ELSE IF JailBlocks(acts, k) THEN Sent(st, "jail_protected", v, i)
       ELSE IF DoctorBlocks(acts, k) THEN Sent(st, "healed", v, i)
       ELSE IF v \in DOMAIN bgm /\ ~Bypass(k) /\ FoundAlive(st.ps, bgm[v])
       THEN Sent([st EXCEPT !.ps[bgm[v]].alive = FALSE,
                            !.ps[bgm[v]].revealed = TRUE],
                 "died_protecting", bgm[v], i)
       ELSE IF SoldierSpecial(st.ps[v])
       THEN IF k.actor_role = "Beastman"
            THEN Sent([st EXCEPT !.ps[v].alive = FALSE], "killed", v, i)
            ELSE Sent([st EXCEPT !.ps[v].soldier_used = TRUE], "soldier_survived", v, i)
       ELSE Sent([st EXCEPT !.ps[v].alive = FALSE,
                            !.ps[v].revealed =
                                IF v \notin cleaned_bodies THEN TRUE ELSE @],
                 "killed", v, i)

\* One pass of apply_player_actions over the snapshot: the actions of the
\* pass's types, in queue order.
RECURSIVE ContactPass(_, _, _)
ContactPass(st, acts, i) ==
    IF i > Len(acts) THEN st
    ELSE ContactPass(IF acts[i].type = "contact" THEN ContactOne(st, acts[i], i) ELSE st,
                     acts, i + 1)

RECURSIVE ConvertPass(_, _, _)
ConvertPass(st, acts, i) ==
    IF i > Len(acts) THEN st
    ELSE ConvertPass(IF acts[i].type = "cult_convert" THEN ConvertOne(st, acts[i], i) ELSE st,
                     acts, i + 1)

RECURSIVE ExecutePass(_, _, _)
ExecutePass(st, acts, i) ==
    IF i > Len(acts) THEN st
    ELSE ExecutePass(IF acts[i].type = "jail_execute" THEN ExecuteOne(st, acts[i], i) ELSE st,
                     acts, i + 1)

RECURSIVE KillPass(_, _, _)
KillPass(st, acts, i) ==
    IF i > Len(acts) THEN st
    ELSE KillPass(IF acts[i].type \in KillTypes THEN KillOne(st, acts, acts[i], i) ELSE st,
                  acts, i + 1)

\* apply_player_actions on a snapshot of the queue: contacts, conversions,
\* executes, kills, in this order.  The result is the roster and the
\* messages sent on the way.
ResolveNight(ps, acts) ==
    KillPass(ExecutePass(ConvertPass(ContactPass([ps |-> ps, log |-> {}], acts, 1),
                                     acts, 1), acts, 1), acts, 1)

\* ----- victory check -----
\* A win check whose Mafia rule asks for more Mafia than Cult.
check_victory_mafia_outnumbers(ps) ==
    LET mafia == Cardinality({s \in DOMAIN ps : ps[s].alive /\ ps[s].faction = "Mafia"})
        cult == Cardinality({s \in DOMAIN ps : ps[s].alive /\ ps[s].faction = "Cult"})
        town == Cardinality({s \in DOMAIN ps : ps[s].alive /\ ps[s].faction = "Town"})
        neutral == Cardinality({s \in DOMAIN ps : ps[s].alive /\ ps[s].faction = "Neutral"})
    IN IF mafia = 0 /\ town > 0 THEN "Town"
       ELSE IF town = 0 /\ mafia > cult THEN "Mafia"
       ELSE IF cult >= mafia + town + neutral THEN "Cult"
       ELSE IF neutral > 0 /\ mafia = 0 /\ town = 0 /\ cult = 0 THEN "Neutral"
       ELSE "None"

AliveOf(ps, f) == {s \in DOMAIN ps : ps[s].alive /\ ps[s].faction = f}

check_victory(ps) ==
    LET mafia == Cardinality(AliveOf(ps, "Mafia"))
        cult == Cardinality(AliveOf(ps, "Cult"))
        town == Cardinality(AliveOf(ps, "Town"))
        neutral == Cardinality(AliveOf(ps, "Neutral"))
    IN IF mafia = 0 /\ town > 0 THEN "Town"
       ELSE IF town = 0 /\ mafia >= cult THEN "Mafia"
       ELSE IF cult >= mafia + town + neutral THEN "Cult"
       ELSE IF neutral > 0 /\ mafia = 0 /\ town = 0 /\ cult = 0 THEN "Neutral"
       ELSE None

\* ----- accusation and verdict -----
\* room["votes"] and room["verdict_votes"] map a voter to a value; None
\* stands for "no entry".
NoVotes == [v \in Voters |-> NoName]
NoVerdicts == [v \in Voters |-> None]

\* tally[v] of determine_accused / resolve_verdict: the voters of one value.
Tally(m, x) == Cardinality({v \in DOMAIN m : m[v] = x})

\* "tally[v] = tally.get(v, 0) + 1" raises TypeError on an unhashable value.
TallyRaises(vs) == \E v \in DOMAIN vs : vs[v] = Unhashable

\* A tally that takes the first of the names with the most votes, tie or not.
determine_accused_ignoring_ties(vs) ==
    LET named == {vs[v] : v \in DOMAIN vs} \ {NoName}
        top == {t \in named : \A u \in named : Tally(vs, u) <= Tally(vs, t)}
    IN IF named = {} THEN NoName
       ELSE CHOOSE t \in top : \A u \in top : t <= u

\* determine_accused: the new room["accused"].
determine_accused(vs) ==
    LET named == {vs[v] : v \in DOMAIN vs} \ {NoName}
        top == {t \in named : \A u \in named : Tally(vs, u) <= Tally(vs, t)}
    IN IF named = {} THEN NoName
       ELSE IF Cardinality(top) > 1 THEN NoName
       ELSE CHOOSE t \in top : TRUE

\* A verdict that also lynches on a tie.
LynchesOnTie(vv) == Tally(vv, "guilty") >= Tally(vv, "innocent")

\* resolve_verdict: "if tally["guilty"] > tally["innocent"]".
Lynches(vv) == Tally(vv, "guilty") > Tally(vv, "innocent")

\* resolve_verdict: the roster after the verdict on acc.
resolve_verdict(ps, acc, vv) ==
    IF Lynches(vv) /\ FoundAlive(ps, acc)
    THEN [ps EXCEPT ![acc].alive = FALSE,
                    ![acc].revealed = IF acc \notin cleaned_bodies THEN TRUE ELSE @]
    ELSE ps

\* ----- faction visibility -----
\* build_faction_list_for_player: the seats listed to a viewer, those of the
\* viewer's faction except an uncontacted Fanatic (unless the viewer is a
\* Fanatic or the Cult Leader) and an uncontacted Spy.
build_faction_list_for_player(ps, viewer) ==
    {p \in DOMAIN ps :
        /\ ps[p].faction = ps[viewer].faction
        /\ ~(/\ ps[p].role = "Fanatic" /\ ~ps[p].contacted
             /\ ps[viewer].role # "Fanatic" /\ ps[viewer].role # "Cult Leader")
        /\ ~(ps[p].role = "Spy" /\ ~ps[p].contacted)}

\* No faction_mates message was built for the seat yet.
NotSent == {NoName}
NoMates == [s \in Seats |-> NotSent]

\* send_faction_mates: a new list for every seat of the Mafia or the Cult
\* (to be sent when the seat has a socket); the other seats get none.
send_faction_mates(ps, old) ==
    [v \in DOMAIN ps |->
        IF ps[v].faction \in {"Mafia", "Cult"}
        THEN build_faction_list_for_player(ps, v)
        ELSE old[v]]

\* ----- the room -----
VARIABLES
    state,            \* room["state"]: waiting / active / ended
    phase,            \* room["phase"]: waiting / night / day
    day,              \* room["day"]
    players,          \* room["players"], by seat
    actions,          \* room["actions"], the queued night actions
    votes,            \* room["votes"]
    verdict_votes,    \* room["verdict_votes"]
    accused,          \* room["accused"]
    controller_task,  \* room["controller_task"]: none / done / where the task waits
    pendingStarts,    \* start_game calls suspended between lines 491 and 501
    loops,            \* phase_controller tasks that have not returned
    lastSub,          \* the sub-phase phase_controller entered last since the start
    winReported,      \* end_game has announced a winner
    winner,           \* the winner end_game announced last
    resolved,         \* the night resolution just applied (until the win check)
    mates             \* the faction_mates list send_faction_mates last built, by seat

vars == <<state, phase, day, players, actions, votes, verdict_votes, accused,
          controller_task, pendingStarts, loops, lastSub, winReported, winner, resolved,
          mates>>

room == <<state, phase, day, players, actions, votes, verdict_votes, accused>>

NoResolution == [before |-> <<>>, acts |-> <<>>, log |-> {}]

\* room["phase"].lower().startswith("day"), over the values the code assigns.
StartsWithDay(ph) == ph = "day"

\* room["phase"].lower().find("vote") != -1, over the values the code assigns.
NamesVote(ph) == ph \in {"vote", "voting", "day_vote"}

\* create_room_obj, with roles from sample_roles_for_game.
InitRoom(roster) ==
    /\ state = "waiting"
    /\ phase = "waiting"
    /\ day = 0
    /\ players = roster
    /\ actions = <<>>
    /\ votes = NoVotes
    /\ verdict_votes = NoVerdicts
    /\ accused = NoName
    /\ controller_task = "none"
    /\ pendingStarts = 0
    /\ loops = 0
    /\ lastSub = "none"
    /\ winReported = FALSE
    /\ winner = None
    /\ resolved = NoResolution
    /\ mates = NoMates

\* ----- handlers -----
\* The check both action handlers make before they append.
ActionRefused(ph) == StartsWithDay(ph)

Append_action(a) ==
    IF ActionRefused(phase)
    THEN UNCHANGED vars
    ELSE /\ actions' = Append(actions, a)
         /\ UNCHANGED <<state, phase, day, players, votes, verdict_votes, accused,
                        controller_task, pendingStarts, loops, lastSub, winReported, winner,
                        resolved, mates>>

\* POST /queue-action: actor_role is None.
queue_action(actor, target, type) == Append_action(Action(actor, target, type, None))

\* WebSocket message player_action.
ws_player_action(a) == Append_action(a)

\* The check the vote and accuse messages make.
VoteRefused(ph) == ~StartsWithDay(ph)

Cast_vote(voter, target) ==
    /\ votes' = [votes EXCEPT ![voter] = target]
    /\ UNCHANGED <<state, phase, day, players, actions, verdict_votes, accused,
                   controller_task, pendingStarts, loops, lastSub, winReported, winner,
                   resolved, mates>>

\* WebSocket message vote (a digit target is replaced by that seat's name).
ws_vote(voter, target) ==
    IF VoteRefused(phase) THEN UNCHANGED vars ELSE Cast_vote(voter, target)

\* WebSocket message accuse.
ws_accuse(voter, target) ==
    IF VoteRefused(phase) THEN UNCHANGED vars ELSE Cast_vote(voter, target)

\* WebSocket message chat whose text is a seat number: a vote when the phase
\* names a vote, else only relayed.
ws_chat_digit(voter, target) ==
    IF NamesVote(phase) /\ target \in DOMAIN players
    THEN Cast_vote(voter, target)
    ELSE UNCHANGED vars

\* The check the verdict_vote message makes.
VerdictRefused(acc) == acc = NoName

\* WebSocket message verdict_vote.
ws_verdict_vote(voter, choice) ==
    IF VerdictRefused(accused) \/ choice \notin {"guilty", "innocent"}
    THEN UNCHANGED vars
    ELSE /\ verdict_votes' = [verdict_votes EXCEPT ![voter] = choice]
         /\ UNCHANGED <<state, phase, day, players, actions, votes, accused,
                        controller_task, pendingStarts, loops, lastSub, winReported, winner,
                        resolved, mates>>

\* start_game: "if room["state"] == "active": return ... already active".
StartRefused(st) == st = "active"

\* A start_game that also deals the session afresh: everybody alive, no role
\* revealed.
start_game_with_fresh_roster ==
    IF StartRefused(state)
    THEN UNCHANGED vars
    ELSE /\ state' = "active"
         /\ day' = 0
         /\ phase' = "night"
         /\ pendingStarts' = pendingStarts + 1
         /\ lastSub' = "none"
         /\ players' = [s \in DOMAIN players |->
                          [players[s] EXCEPT !.alive = TRUE, !.revealed = FALSE]]
         /\ UNCHANGED <<actions, votes, verdict_votes, accused,
                        controller_task, loops, winReported, winner, resolved, mates>>

\* start_game up to its first await: lines 488-493.
start_game ==
    IF StartRefused(state)
    THEN UNCHANGED vars
    ELSE /\ state' = "active"
         /\ day' = 0
         /\ phase' = "night"
         /\ pendingStarts' = pendingStarts + 1
         /\ lastSub' = "none"
         /\ UNCHANGED <<players, actions, votes, verdict_votes, accused,
                        controller_task, loops, winReported, winner, resolved, mates>>

\* A start_game that creates its task without looking at the one it has.
AlwaysNeedsController(ct) == TRUE

\* "if room.get("controller_task") is None or room.get("controller_task").done()"
NeedsController(ct) == ct \in {"none", "done"}

\* start_game after its awaits: lines 501-503.
start_game_launch ==
    /\ pendingStarts > 0
    /\ pendingStarts' = pendingStarts - 1
    /\ IF NeedsController(controller_task)
       THEN controller_task' = "created" /\ loops' = loops + 1
       ELSE UNCHANGED <<controller_task, loops>>
    /\ UNCHANGED <<state, phase, day, players, actions, votes, verdict_votes, accused,
                   lastSub, winReported, winner, resolved, mates>>

\* ----- phase_controller -----
\* "while room["state"] == "active":" and the entry of the night (lines
\* 524-531), or the return of the task.
LoopTest(ps) ==
    IF state = "active"
    THEN /\ phase' = "night"
         /\ controller_task' = "night"
         /\ lastSub' = "night"
         /\ mates' = send_faction_mates(ps, mates)
         /\ UNCHANGED loops
    ELSE /\ controller_task' = "done"
         /\ loops' = loops - 1
         /\ UNCHANGED <<phase, lastSub, mates>>

\* "if room["state"] != "active": break", else the entry of the discussion
\* (lines 535-543).
AfterNight ==
    IF state # "active"
    THEN /\ controller_task' = "done"
         /\ loops' = loops - 1
         /\ UNCHANGED <<day, phase, lastSub>>
    ELSE /\ day < MaxDay
         /\ day' = day + 1
         /\ phase' = "day"
         /\ controller_task' = "day_discuss"
         /\ lastSub' = "day_discuss"
         /\ UNCHANGED loops

\* An exception leaves phase_controller: nothing in it catches one, so the
\* task is done (failed) and the room stays as it is.
TaskDies ==
    /\ controller_task' = "done"
    /\ loops' = loops - 1

\* The task starts to run.
ctl_begin ==
    /\ controller_task = "created"
    /\ LoopTest(players)
    /\ UNCHANGED <<state, day, players, actions, votes, verdict_votes, accused,
                   pendingStarts, winReported, winner, resolved>>

\* The night timer expires: apply_player_actions copies the queue and applies
\* its passes.  It suspends before it clears the queue when a pass sent a
\* message.
ctl_night_timeout ==
    /\ controller_task = "night"
    /\ IF GatherRaises(actions)
       THEN TaskDies /\ UNCHANGED <<players, actions, resolved, mates>>
       ELSE LET r == ResolveNight(players, actions)
            IN /\ players' = r.ps
               /\ resolved' = [before |-> players, acts |-> actions, log |-> r.log]
               /\ IF r.log # {}
                  THEN controller_task' = "resolving" /\ UNCHANGED <<actions, mates>>
                  ELSE /\ controller_task' = "resolved"
                       /\ actions' = <<>>
                       /\ mates' = send_faction_mates(r.ps, mates)
               /\ UNCHANGED loops
    /\ UNCHANGED <<state, phase, day, votes, verdict_votes, accused, pendingStarts,
                   lastSub, winReported, winner>>

\* "room["actions"] = []" (line 856), then the broadcast of the room.
ctl_clear_actions ==
    /\ controller_task = "resolving"
    /\ actions' = <<>>
    /\ controller_task' = "resolved"
    /\ mates' = send_faction_mates(players, mates)
    /\ UNCHANGED <<state, phase, day, players, votes, verdict_votes, accused,
                   pendingStarts, loops, lastSub, winReported, winner, resolved>>

\* check_victory at the end of apply_player_actions (line 859); without a
\* winner the one of line 534 finds none either and the loop goes on.
ctl_night_victory ==
    /\ controller_task = "resolved"
    /\ resolved' = NoResolution
    /\ IF check_victory(players) # None
       THEN /\ state' = "ended"
            /\ winReported' = TRUE
            /\ winner' = check_victory(players)
            /\ controller_task' = "won1"
            /\ UNCHANGED <<day, phase, lastSub, loops>>
       ELSE AfterNight /\ UNCHANGED <<state, winReported, winner>>
    /\ UNCHANGED <<players, actions, votes, verdict_votes, accused, pendingStarts, mates>>

\* check_victory of line 534, after end_game's broadcasts.
ctl_night_victory_again ==
    /\ controller_task = "won1"
    /\ IF check_victory(players) # None
       THEN /\ state' = "ended"
            /\ winReported' = TRUE
            /\ winner' = check_victory(players)
            /\ controller_task' = "won2"
            /\ UNCHANGED <<day, phase, lastSub, loops>>
       ELSE AfterNight /\ UNCHANGED <<state, winReported, winner>>
    /\ UNCHANGED <<players, actions, votes, verdict_votes, accused, pendingStarts,
                   resolved, mates>>

\* Line 535, after the broadcasts of the second end_game.
ctl_after_night ==
    /\ controller_task = "won2"
    /\ AfterNight
    /\ UNCHANGED <<state, players, actions, votes, verdict_votes, accused,
                   pendingStarts, winReported, winner, resolved, mates>>

\* The discussion timer expires: "room["votes"] = {}", the vote opens.
ctl_enter_vote ==
    /\ controller_task = "day_discuss"
    /\ votes' = NoVotes
    /\ controller_task' = "day_vote"
    /\ lastSub' = "day_vote"
    /\ UNCHANGED <<state, phase, day, players, actions, verdict_votes, accused,
                   pendingStarts, loops, winReported, winner, resolved, mates>>

\* The vote timer expires: determine_accused, the defence opens.
ctl_vote_timeout ==
    /\ controller_task = "day_vote"
    /\ IF TallyRaises(votes)
       THEN TaskDies /\ UNCHANGED <<accused, lastSub>>
       ELSE /\ accused' = determine_accused(votes)
            /\ controller_task' = "day_defence"
            /\ lastSub' = "day_defence"
            /\ UNCHANGED loops
    /\ UNCHANGED <<state, phase, day, players, actions, votes, verdict_votes,
                   pendingStarts, winReported, winner, resolved, mates>>

\* The defence timer expires: "if room.get("accused")" opens the verdict,
\* else the controller only sleeps DAY_FINAL.
ctl_defence_timeout ==
    /\ controller_task = "day_defence"
    /\ IF accused # NoName
       THEN verdict_votes' = NoVerdicts /\ controller_task' = "day_final"
       ELSE UNCHANGED verdict_votes /\ controller_task' = "day_final_idle"
    /\ lastSub' = "day_final"
    /\ UNCHANGED <<state, phase, day, players, actions, votes, accused,
                   pendingStarts, loops, winReported, winner, resolved, mates>>

\* The verdict timer expires: resolve_verdict, its check_victory, and when
\* nobody won the next turn of the loop.
ctl_final_timeout ==
    /\ controller_task = "day_final"
    /\ IF accused = NoName
       THEN LoopTest(players) /\ UNCHANGED <<state, players, accused, verdict_votes, winReported, winner>>
       ELSE IF verdict_votes = NoVerdicts
       THEN /\ accused' = NoName
            /\ LoopTest(players)
            /\ UNCHANGED <<state, players, verdict_votes, winReported, winner>>
       ELSE /\ players' = resolve_verdict(players, accused, verdict_votes)
            /\ accused' = NoName
            /\ verdict_votes' = NoVerdicts
            /\ IF players' # players /\ check_victory(players') # None
               THEN /\ state' = "ended"
                    /\ winReported' = TRUE
                    /\ winner' = check_victory(players')
                    /\ controller_task' = "verdict_won"
                    /\ UNCHANGED <<phase, lastSub, loops, mates>>
               ELSE LoopTest(resolve_verdict(players, accused, verdict_votes))
                    /\ UNCHANGED <<state, winReported, winner>>
    /\ UNCHANGED <<day, actions, votes, pendingStarts, resolved>>

\* The DAY_FINAL sleep of a day without accused expires.
ctl_idle_timeout ==
    /\ controller_task = "day_final_idle"
    /\ LoopTest(players)
    /\ UNCHANGED <<state, day, players, actions, votes, verdict_votes, accused,
                   pendingStarts, winReported, winner, resolved>>

\* The loop test after the broadcasts of an end_game called by the verdict.
ctl_after_verdict ==
    /\ controller_task = "verdict_won"
    /\ LoopTest(players)
    /\ UNCHANGED <<state, day, players, actions, votes, verdict_votes, accused,
                   pendingStarts, winReported, winner, resolved>>

phase_controller ==
    \/ ctl_begin
    \/ ctl_night_timeout
    \/ ctl_clear_actions
    \/ ctl_night_victory
    \/ ctl_night_victory_again
    \/ ctl_after_night
    \/ ctl_enter_vote
    \/ ctl_vote_timeout
    \/ ctl_defence_timeout
    \/ ctl_final_timeout
    \/ ctl_idle_timeout
    \/ ctl_after_verdict

\* ----- the session under its players' messages -----
\* The night actions the players of this specification submit.
SessionActions == {Action(1, t, "mafia_kill", None) : t \in Seats}

Init == InitRoom(RosterAt(1))

Next ==
    \/ /\ Len(actions) < MaxQueue
       /\ \E a \in SessionActions : queue_action(a.actor, a.target, a.type)
    \/ /\ Len(actions) < MaxQueue
       /\ \E a \in SessionActions : ws_player_action(a)
    \/ \E v \in Voters, t \in Seats : ws_vote(v, t)
    \/ \E v \in Voters, t \in Seats : ws_accuse(v, t)
    \/ \E v \in Voters, t \in Seats : ws_chat_digit(v, t)
    \/ \E v \in Voters, c \in {"guilty", "innocent"} : ws_verdict_vote(v, c)
    \/ pendingStarts < MaxPendingStarts /\ start_game
    \/ start_game_launch
    \/ phase_controller

Spec == Init /\ [][Next]_vars

\* ----- the session under start calls -----
\* Start calls at any time, around one player's messages: seat 1 queues a
\* kill, votes for a seat and votes on the verdict, which takes the
\* controller through every step, a win by night and a win by verdict
\* included.
StartNext ==
    \/ /\ Len(actions) < MaxQueue
       /\ \E a \in SessionActions : queue_action(a.actor, a.target, a.type)
    \/ \E t \in Seats : ws_vote(1, t)
    \/ \E c \in {"guilty", "innocent"} : ws_verdict_vote(1, c)
    \/ pendingStarts < MaxPendingStarts /\ start_game
    \/ start_game_launch
    \/ phase_controller

StartSpec == Init /\ [][StartNext]_vars

\* ----- one session's nights under a fuller set of night actions -----
\* The session is started and its controller sleeps in the first night; the
\* players submit night actions only (no votes, so no day has an accused), and
\* only while the night timer runs.
\* Seat 2 submits them; seat 1 is the seat most of them aim at.
NightActions ==
    {Action(2, t, ty, None) : t \in {1, 2}, ty \in {"doctor_heal", "mafia_kill"}}
    \cup {Action(2, 1, ty, None) :
            ty \in {"jail", "beast_kill", "bodyguard_protect", "jail_execute",
                    "cult_convert"}}
    \cup {Action(2, 1, "mafia_kill", "Beastman")}
    \cup {Action(2, 1, "vigilante_shot", None), Action(2, 3, "jail_execute", None)}

InitNight ==
    \E k \in 1..Len(Casting) :
        /\ state = "active"
        /\ phase = "night"
        /\ day = 0
        /\ players = RosterAt(k)
        /\ actions = <<>>
        /\ votes = NoVotes
        /\ verdict_votes = NoVerdicts
        /\ accused = NoName
        /\ controller_task = "night"
        /\ pendingStarts = 0
        /\ loops = 1
        /\ lastSub = "night"
        /\ winReported = FALSE
        /\ winner = None
        /\ resolved = NoResolution
        /\ mates = send_faction_mates(players, NoMates)

NextNight ==
    \/ /\ controller_task = "night"
       /\ Len(actions) < MaxNightQueue
       /\ \E a \in NightActions : ws_player_action(a)
    \/ ctl_night_timeout
    \/ ctl_clear_actions
    \/ ctl_night_victory
    \/ ctl_night_victory_again
    \/ ctl_after_night
    \/ ctl_enter_vote
    \/ ctl_vote_timeout
    \/ ctl_defence_timeout
    \/ ctl_idle_timeout

NightSpec == InitNight /\ [][NextNight]_vars

\* ----- the nights under malformed player_action messages -----
\* As NightSpec, with the night actions whose target is a JSON array next
\* to an ordinary kill.
FaultActions ==
    {Action(2, Unhashable, ty, None) : ty \in {"doctor_heal", "jail", "bodyguard_protect"}}
    \cup {Action(2, 1, "mafia_kill", None)}

NextFault ==
    \/ /\ controller_task = "night"
       /\ Len(actions) < MaxNightQueue
       /\ \E a \in FaultActions : ws_player_action(a)
    \/ ctl_night_timeout
    \/ ctl_clear_actions
    \/ ctl_night_victory
    \/ ctl_night_victory_again
    \/ ctl_after_night
    \/ ctl_enter_vote
    \/ ctl_vote_timeout
    \/ ctl_defence_timeout
    \/ ctl_idle_timeout

FaultSpec == InitNight /\ [][NextFault]_vars

\* ----- the nights under late submissions and the server's own actions -----
\* simulate_bot_night_actions, started at every entry of a night, sleeps a
\* quarter of the night and then appends for the living players (it does not
\* look at is_bot).  Each append is followed by an await, so each is a step.
\* Lines 580-593: a living Mafia member attacks a living seat outside the
\* Mafia, and the action carries the attacker's role.
bot_mafia_kill ==
    \E attacker \in DOMAIN players, victim \in DOMAIN players :
        /\ players[attacker].alive /\ players[attacker].faction = "Mafia"
        /\ players[victim].alive /\ players[victim].faction # "Mafia"
        /\ actions' = Append(actions, Action(attacker, victim, "mafia_kill",
                                             players[attacker].role))
        /\ UNCHANGED <<state, phase, day, players, votes, verdict_votes, accused,
                       controller_task, pendingStarts, loops, lastSub, winReported,
                       winner, resolved, mates>>

\* Lines 595-601: with some probability a living Cult member converts a
\* living seat outside the Cult and the Mafia; the action has no actor_role.
bot_cult_convert ==
    \E actor \in DOMAIN players, t \in DOMAIN players :
        /\ players[actor].alive /\ players[actor].faction = "Cult"
        /\ players[t].alive /\ players[t].faction \notin {"Cult", "Mafia"}
        /\ actions' = Append(actions, Action(actor, t, "cult_convert", None))
        /\ UNCHANGED <<state, phase, day, players, votes, verdict_votes, accused,
                       controller_task, pendingStarts, loops, lastSub, winReported,
                       winner, resolved, mates>>

\* The bots' kill of this night is queued: the only queued kill that names
\* its actor's role (the players of this specification name none).
BotKillQueued ==
    \E i \in OfType(actions, {"mafia_kill"}) : actions[i].actor_role # None

\* The kill part of the bots has nothing to append.
BotKillIdle ==
    ~\E attacker \in DOMAIN players, victim \in DOMAIN players :
        /\ players[attacker].alive /\ players[attacker].faction = "Mafia"
        /\ players[victim].alive /\ players[victim].faction # "Mafia"

BotConvertQueued == OfType(actions, {"cult_convert"}) # {}

\* As NightSpec, with seat 1's kills arriving at any moment (the handler
\* refuses them by day), and the bots' kill and conversion once a night,
\* in the code's order, while the night timer runs.
NextLate ==
    \/ /\ Len(actions) < MaxNightQueue
       /\ \E a \in SessionActions : ws_player_action(a)
    \/ /\ controller_task = "night"
       /\ Len(actions) < MaxNightQueue
       /\ ~BotKillQueued
       /\ bot_mafia_kill
    \/ /\ controller_task = "night"
       /\ Len(actions) < MaxNightQueue
       /\ BotKillQueued \/ BotKillIdle
       /\ ~BotConvertQueued
       /\ bot_cult_convert
    \/ ctl_night_timeout
    \/ ctl_clear_actions
    \/ ctl_night_victory
    \/ ctl_night_victory_again
    \/ ctl_after_night
    \/ ctl_enter_vote
    \/ ctl_vote_timeout
    \/ ctl_defence_timeout
    \/ ctl_idle_timeout

LateSpec == InitNight /\ [][NextLate]_vars

\* ----- the nights of the hidden roles -----
\* As NightSpec, with rosters of the roles the visibility rules name (the
\* two leaders, the two roles hidden until contacted, and a Villager), and
\* seat 1 submitting contact actions that declare one of the hidden roles.
MateRoles == {"Godfather", "Spy", "Cult Leader", "Fanatic", "Villager"}

MateActions ==
    {Action(1, t, "contact", r) : t \in Seats \ {1}, r \in {"Fanatic", "Spy"}}

InitMates ==
    \E roles \in [Seats -> MateRoles] :
        /\ state = "active"
        /\ phase = "night"
        /\ day = 0
        /\ players = [s \in Seats |-> NewPlayer(roles[s])]
        /\ actions = <<>>
        /\ votes = NoVotes
        /\ verdict_votes = NoVerdicts
        /\ accused = NoName
        /\ controller_task = "night"
        /\ pendingStarts = 0
        /\ loops = 1
        /\ lastSub = "night"
        /\ winReported = FALSE
        /\ winner = None
        /\ resolved = NoResolution
        /\ mates = send_faction_mates(players, NoMates)

NextMates ==
    \/ /\ controller_task = "night"
       /\ Len(actions) < MaxNightQueue
       /\ \E a \in MateActions : ws_player_action(a)
    \/ ctl_night_timeout
    \/ ctl_clear_actions
    \/ ctl_night_victory
    \/ ctl_night_victory_again
    \/ ctl_after_night
    \/ ctl_enter_vote
    \/ ctl_vote_timeout
    \/ ctl_defence_timeout
    \/ ctl_idle_timeout

MatesSpec == InitMates /\ [][NextMates]_vars

\* ----- one day of a session under its players' votes -----
\* The controller sleeps in the discussion of Day 1, after a first night in
\* which nothing was queued: the roster is one the win check lets play on.
\* The players vote and accuse (a seat, "abstain", or a JSON array) and vote
\* on the verdict.
VoteValues == Seats \cup {abstain, Unhashable}

InitDay ==
    \E k \in 1..Len(Casting) :
        /\ check_victory(RosterAt(k)) = None
        /\ state = "active"
        /\ phase = "day"
        /\ day = 1
        /\ players = RosterAt(k)
        /\ actions = <<>>
        /\ votes = NoVotes
        /\ verdict_votes = NoVerdicts
        /\ accused = NoName
        /\ controller_task = "day_discuss"
        /\ pendingStarts = 0
        /\ loops = 1
        /\ lastSub = "day_discuss"
        /\ winReported = FALSE
        /\ winner = None
        /\ resolved = NoResolution
        /\ mates = send_faction_mates(players, NoMates)

NextDay ==
    \/ \E v \in Voters, t \in VoteValues : ws_vote(v, t)
    \/ \E v \in Voters, t \in VoteValues : ws_accuse(v, t)
    \/ \E v \in Voters, c \in {"guilty", "innocent"} : ws_verdict_vote(v, c)
    \/ ctl_enter_vote
    \/ ctl_vote_timeout
    \/ ctl_defence_timeout
    \/ ctl_final_timeout
    \/ ctl_idle_timeout
    \/ ctl_after_verdict

DaySpec == InitDay /\ [][NextDay]_vars

\* ----- the win check on every roster -----
\* A night resolution has just cleared the queue and the win check is next.
\* The roster is any mix of the four factions (one role stands for each),
\* with any of its seats dead.
FactionRoles == {"Villager", "Godfather", "Cult Leader", "Jester"}

InitVictory ==
    \E roles \in [Seats -> FactionRoles], living \in SUBSET Seats :
        /\ state = "active"
        /\ phase = "night"
        /\ day = 0
        /\ players = [s \in Seats |->
                        [NewPlayer(roles[s]) EXCEPT !.alive = s \in living,
                                                    !.revealed = s \notin living]]
        /\ actions = <<>>
        /\ votes = NoVotes
        /\ verdict_votes = NoVerdicts
        /\ accused = NoName
        /\ controller_task = "resolved"
        /\ pendingStarts = 0
        /\ loops = 1
        /\ lastSub = "night"
        /\ winReported = FALSE
        /\ winner = None
        /\ resolved = NoResolution
        /\ mates = send_faction_mates(players, NoMates)

NextVictory ==
    \/ ctl_night_victory
    \/ ctl_night_victory_again
    \/ ctl_after_night

VictorySpec == InitVictory /\ [][NextVictory]_vars

\* ======================= the claims =======================

\* The order in which the sub-phases follow each other.
CycleOrder ==
    {<<"none", "night">>, <<"night", "day_discuss">>, <<"day_discuss", "day_vote">>,
     <<"day_vote", "day_defence">>, <<"day_defence", "day_final">>,
     <<"day_final", "night">>}

\* C1: from the start of a session on, every sub-phase phase_controller
\* enters is the successor, in the cycle night, day_discuss, day_vote,
\* day_defence, day_final, night, of the one it entered before, and the
\* first one after the start is night.
C1_PhaseOrder ==
    [][(lastSub' # lastSub /\ lastSub' # "none") => <<lastSub, lastSub'>> \in CycleOrder]_vars

\* C2: an action is appended to the queue only while the session is active
\* and its phase is night.
C2_ActionsOnlyAtNight ==
    [][Len(actions') > Len(actions) => (state = "active" /\ phase = "night")]_vars

\* C3: a message changes the day-vote map only while the controller is in
\* day_vote, and the verdict-vote map only while it is in day_final.
C3_VotesOnlyInTheirPhase ==
    [][/\ (votes' # votes /\ controller_task' = controller_task)
            => controller_task = "day_vote"
       /\ (verdict_votes' # verdict_votes /\ controller_task' = controller_task)
            => controller_task = "day_final"]_vars

\* C4: a start call gets past the check only on a session that is not
\* active, and then makes it active in phase night; a started session
\* whose start calls have all returned has exactly one phase loop, and no
\* session ever has two.
C4_StartOnce ==
    [][/\ pendingStarts' > pendingStarts
            => (state # "active" /\ state' = "active" /\ phase' = "night" /\ day' = 0)
       /\ loops' <= 1
       /\ (state' = "active" /\ pendingStarts' = 0) => loops' = 1]_vars

\* C4 witness: a start call is in flight on a session whose phase loop is
\* still alive, and there is one loop.
C4_Witness ==
    state = "active" /\ pendingStarts = 1 /\ loops = 1 /\ controller_task # "created"

\* C5: once the session is ended, its state, phase, day, roster, queue,
\* vote maps and accusation never change.
C5_EndedIsFinal == [][state = "ended" => UNCHANGED room]_vars

\* C6: once a win check has reported a winner, phase_controller enters no
\* further sub-phase.
C6_NoPhaseAfterWin ==
    [][winReported => (lastSub' = lastSub \/ lastSub' = "none")]_vars

\* ----- the night resolution just applied -----
InResolution == controller_task \in {"resolving", "resolved"}

\* The seats a queued heal, a queued jail names, and the queued kills on a seat.
HealTargets == {resolved.acts[i].target : i \in OfType(resolved.acts, {"doctor_heal"})}
JailTargets == {resolved.acts[i].target : i \in OfType(resolved.acts, {"jail"})}
KillsOn(s) == {i \in OfType(resolved.acts, KillTypes) : resolved.acts[i].target = s}

\* A kill is bypass-flagged when its declared actor-role is Beastman or its
\* kind is beast_kill.
BypassFlagged(a) == a.actor_role = "Beastman" \/ a.type = "beast_kill"
PlainKillsOn(s) == {i \in KillsOn(s) : ~BypassFlagged(resolved.acts[i])}

\* Queued action i made the seat's death known (it died of it).
DeathNotice(s, i) ==
    \E e \in resolved.log :
        e.seat = s /\ e.cause = i /\ e.ev \in {"killed", "died_protecting", "executed"}

\* No queued execute names the seat, and the seat guards nobody: nothing but
\* a kill aimed at the seat can kill it this night.
OnlyKillsThreaten(s) ==
    \A i \in 1..Len(resolved.acts) :
        /\ resolved.acts[i].type = "jail_execute" => resolved.acts[i].target # s
        /\ resolved.acts[i].type = "bodyguard_protect" => resolved.acts[i].actor # s

\* C7: a seat a queued doctor heal names dies of no kill aimed at it that is
\* not bypass-flagged; when no other kind of action threatens it and every
\* kill aimed at it is not bypass-flagged, it is alive after the night.
C7_DoctorProtects ==
    InResolution =>
        \A s \in HealTargets :
            /\ \A i \in PlainKillsOn(s) : ~DeathNotice(s, i)
            /\ (resolved.before[s].alive /\ KillsOn(s) = PlainKillsOn(s)
                    /\ OnlyKillsThreaten(s))
                 => players[s].alive

\* C7 witness: a healed seat, neither jailed nor a Soldier, was the target of
\* two kills that are not bypass-flagged, one of them queued before the heal,
\* and is alive.
C7_Witness ==
    /\ InResolution
    /\ \E s \in HealTargets \ JailTargets :
        /\ resolved.before[s].alive /\ resolved.before[s].role # "Soldier"
        /\ players[s].alive
        /\ Cardinality(PlainKillsOn(s)) >= 2
        /\ resolved.acts[1].type = "mafia_kill" /\ resolved.acts[1].target = s

\* C8: a living Soldier with unused protection whom only kills that are not
\* bypass-flagged threaten this night (the seat is not jailed, not guarded)
\* has soldier_used set after the night, doctor heal or not.
C8_SoldierProtectionUsed ==
    InResolution =>
        \A s \in Seats :
            (/\ resolved.before[s].role = "Soldier"
             /\ resolved.before[s].alive
             /\ ~resolved.before[s].soldier_used
             /\ PlainKillsOn(s) # {}
             /\ KillsOn(s) = PlainKillsOn(s)
             /\ s \notin JailTargets
             /\ s \notin DOMAIN bodyguard_map(resolved.acts)
             /\ OnlyKillsThreaten(s)
             /\ OfType(resolved.acts, {"cult_convert"}) = {})
            => players[s].soldier_used

\* C10: a seat a queued jail names dies of no kill aimed at it, bypass-flagged
\* or not, and no death notice goes out for it because of one; when no other
\* kind of action threatens it, it is alive after the night.
C10_JailProtects ==
    InResolution =>
        \A s \in JailTargets :
            /\ \A i \in KillsOn(s) : ~DeathNotice(s, i)
            /\ (resolved.before[s].alive /\ OnlyKillsThreaten(s)) => players[s].alive

\* C10 witness: a jailed seat no heal names was the target of a kill whose
\* declared role is Beastman and of another kill, and is alive.
C10_Witness ==
    /\ InResolution
    /\ \E s \in JailTargets \ HealTargets :
        /\ resolved.before[s].alive
        /\ players[s].alive
        /\ \E i \in KillsOn(s) : resolved.acts[i].actor_role = "Beastman"
        /\ PlainKillsOn(s) # {}

\* C11: a vigilante_shot aimed at a seat whose faction is not Mafia does not
\* kill it: no death is announced for the seat because of the shot.
C11_VigilanteSparesNonMafia ==
    InResolution =>
        \A s \in Seats :
            \A i \in KillsOn(s) :
                (resolved.acts[i].type = "vigilante_shot"
                    /\ resolved.before[s].faction # "Mafia")
                => ~DeathNotice(s, i)

\* ----- the accusation and the verdict -----
\* The names a vote can carry, and the voters of one of them.
VoteTargets == Seats \cup {abstain}
VotesFor(vs, t) == Cardinality({v \in Voters : vs[v] = t})

\* t has at least one vote and strictly more votes than every other name.
StrictTop(vs, t) ==
    /\ VotesFor(vs, t) > 0
    /\ \A u \in VoteTargets \ {t} : VotesFor(vs, u) < VotesFor(vs, t)

\* The controller steps that tally the day votes, and that judge the accused.
TallyStep == controller_task = "day_vote" /\ controller_task' = "day_defence"
VerdictStep == controller_task = "day_final" /\ controller_task' # "day_final"

\* C12: the tally of the day votes (one entry per voter) accuses a seat
\* exactly when that seat has strictly more votes than every other name, and
\* nobody when no name has; a day without accused goes through day_final
\* without a verdict step, and nobody dies in it.
C12_AccusedIsStrictTop ==
    [][/\ TallyStep =>
            /\ \A t \in Seats : accused' = t <=> StrictTop(votes, t)
            /\ (\A t \in VoteTargets : ~StrictTop(votes, t)) => accused' = NoName
       /\ (controller_task = "day_defence" /\ accused = NoName
              /\ controller_task' # controller_task)
            => controller_task' = "day_final_idle"
       /\ controller_task = "day_final_idle" => players' = players]_vars

\* C12 witness: the defence of a day whose two first voters named different
\* seats (a tie at the top) has no accused.
C12_Witness ==
    /\ controller_task = "day_defence"
    /\ accused = NoName
    /\ votes[1] \in Seats /\ votes[2] \in Seats /\ votes[1] # votes[2]
    /\ \A t \in VoteTargets : ~StrictTop(votes, t)

\* C13: when "abstain" has strictly the most day votes, the tally accuses
\* nobody.
C13_AbstainAccusesNobody ==
    [][(TallyStep /\ StrictTop(votes, abstain)) => accused' = NoName]_vars

\* C14: the verdict step kills the accused exactly when the guilty votes
\* outnumber the innocent ones, changes nobody else, and always clears the
\* accusation.
C14_VerdictByMajority ==
    [][VerdictStep =>
        LET guilty == Cardinality({v \in Voters : verdict_votes[v] = "guilty"})
            innocent == Cardinality({v \in Voters : verdict_votes[v] = "innocent"})
        IN /\ accused' = NoName
           /\ \A s \in Seats :
                IF s = accused /\ guilty > innocent
                THEN ~players'[s].alive
                ELSE players'[s] = players[s]]_vars

\* C14 witness: a verdict has killed a seat (in this specification nothing
\* else kills), the accusation is cleared and the controller has moved on.
C14_Witness ==
    /\ controller_task \in {"night", "verdict_won"}
    /\ accused = NoName
    /\ \E s \in Seats : ~players[s].alive /\ players[s].revealed

\* ----- the win check -----
\* The living members of a faction, and the step that runs the win check
\* after a night resolution.
Living(f) == Cardinality({s \in Seats : players[s].alive /\ players[s].faction = f})
NightWinCheck == controller_task = "resolved" /\ controller_task' # "resolved"

C16_NeutralWinsAlone ==
    [][(NightWinCheck /\ Living("Town") = 0 /\ Living("Mafia") = 0
            /\ Living("Cult") = 0 /\ Living("Neutral") >= 1)
        => (state' = "ended" /\ winner' = "Neutral")]_vars

\* ----- the roster's flags -----
\* C17: in every step each seat's alive flag stays or goes from true to
\* false, and its revealed flag stays or goes from false to true.
C17_AliveRevealedMonotone ==
    [][\A s \in Seats :
        /\ players'[s].alive => players[s].alive
        /\ players[s].revealed => players'[s].revealed]_vars

\* C17 witness: a session that ended with a winner has been started again,
\* its new night runs, and a seat that died is still dead and revealed.
C17_Witness ==
    /\ winReported
    /\ state = "active"
    /\ controller_task = "night"
    /\ \E s \in Seats : ~players[s].alive /\ players[s].revealed

\* Queued execute i killed its target this night.
Executed(i) ==
    Event("executed", resolved.acts[i].target, i) \in resolved.log

\* C18: after a night in which a seat's execute killed a victim whose faction
\* was Town, that seat's jailor_has_execute is false; and a false
\* jailor_has_execute never becomes true again.
C18_ExecuteRevoked ==
    [][/\ \A s \in Seats :
            ~players[s].jailor_has_execute => ~players'[s].jailor_has_execute
       /\ InResolution' =>
            \A i \in OfType(resolved'.acts, {"jail_execute"}) :
                (/\ Event("executed", resolved'.acts[i].target, i) \in resolved'.log
                 /\ resolved'.before[resolved'.acts[i].target].faction = "Town")
                => ~players'[resolved'.acts[i].actor].jailor_has_execute]_vars

\* C18 witness: a Jailor who held the privilege executed a Town seat this
\* night and has lost it.
C18_Witness ==
    /\ InResolution
    /\ \E i \in OfType(resolved.acts, {"jail_execute"}) :
        LET a == resolved.acts[i].actor
            t == resolved.acts[i].target
        IN /\ Executed(i)
           /\ resolved.before[a].role = "Jailor"
           /\ resolved.before[a].jailor_has_execute
           /\ resolved.before[t].faction = "Town"
           /\ a # t
           /\ ~players[a].jailor_has_execute

\* The night's messages told the seat it was converted / demoted.
Told(log, ev, s) == \E e \in log : e.ev = ev /\ e.seat = s

\* C19: every seat's faction is role_to_faction of its role, before and
\* after every step; a step changes a seat's role or faction only as the
\* night resolution's Jailor demotion (to Villager and Town) or its cult
\* conversion of a living seat (to Acolyte and Cult).
C19_FactionFollowsRole ==
    [][\A s \in Seats :
        /\ players[s].faction = role_to_faction(players[s].role)
        /\ players'[s].faction = role_to_faction(players'[s].role)
        /\ (players'[s].role # players[s].role \/ players'[s].faction # players[s].faction)
            => /\ controller_task = "night"
               /\ \/ /\ Told(resolved'.log, "demoted", s)
                     /\ players'[s].role = "Villager" /\ players'[s].faction = "Town"
                  \/ /\ Told(resolved'.log, "converted", s)
                     /\ players[s].alive
                     /\ players'[s].role = "Acolyte" /\ players'[s].faction = "Cult"]_vars

\* C19 witness: this night converted a seat that was of another faction, and
\* it is an Acolyte of the Cult.
C19_Witness ==
    /\ InResolution
    /\ \E s \in Seats :
        /\ Told(resolved.log, "converted", s)
        /\ resolved.before[s].faction \notin {"Cult"}
        /\ players[s].role = "Acolyte" /\ players[s].faction = "Cult"

\* ----- errors in a resolution step -----
\* C20: an active session whose start calls have returned has a running
\* phase loop, whatever its resolution steps met.
C20_ActiveHasLoop ==
    (state = "active" /\ pendingStarts = 0) => loops >= 1

\* ----- the queue across the nights -----
\* The controller enters a night: the step that sets its timer.
EntersNight == controller_task # "night" /\ controller_task' = "night"

\* C21: whenever the controller enters a night, the first one after a start
\* included, the action queue is empty.
C21_QueueEmptyAtNight == [][EntersNight => actions' = <<>>]_vars

\* The queue is emptied: by line 856, or by the resolution itself when it
\* sent nothing.
QueueCleared == actions # <<>> /\ actions' = <<>>

\* C22: no submission is accepted and then dropped: whenever the queue is
\* emptied, everything in it was part of the resolution that empties it (a
\* submission that arrives while apply_player_actions runs is refused, so
\* the queue is still the one the resolution copied).
C22_NoSubmissionDropped == [][QueueCleared => actions = resolved'.acts]_vars

\* ----- bodyguard and bypass -----
\* The seats a queued bodyguard_protect names, each with its guard.
Guard == bodyguard_map(resolved.acts)

\* Seat s is guarded by a living seat other than itself, lives, is not
\* jailed, and exactly one kill is aimed at it; nothing else threatens it or
\* its guard this night.
GuardedAgainstOneKill(s) ==
    /\ s \in DOMAIN Guard
    /\ Guard[s] \in Seats \ {s}
    /\ resolved.before[Guard[s]].alive
    /\ resolved.before[s].alive
    /\ s \notin JailTargets
    /\ Cardinality(KillsOn(s)) = 1
    /\ KillsOn(Guard[s]) = {}
    /\ \A i \in OfType(resolved.acts, {"jail_execute"}) :
           resolved.acts[i].target \notin {s, Guard[s]}

\* C23: when the one kill aimed at a guarded seat is not bypass-flagged, the
\* guard is dead and the seat alive after the night, healed or not.
C23_BodyguardDiesInstead ==
    InResolution =>
        \A s \in Seats :
            (GuardedAgainstOneKill(s) /\ KillsOn(s) = PlainKillsOn(s))
                => (~players[Guard[s]].alive /\ players[s].alive)

\* Seat s is healed or guarded by a living seat this night.
Covered(s) ==
    \/ s \in HealTargets
    \/ s \in DOMAIN Guard /\ Guard[s] \in Seats /\ resolved.before[Guard[s]].alive

\* C24: a kill whose declared actor-role is Beastman or whose kind is
\* beast_kill, aimed at a living, non-jailed seat that is healed or guarded,
\* leaves the seat dead.
C24_BypassKills ==
    InResolution =>
        \A s \in Seats \ JailTargets :
            (/\ resolved.before[s].alive
             /\ Covered(s)
             /\ \E i \in KillsOn(s) : BypassFlagged(resolved.acts[i]))
                => ~players[s].alive

\* ----- the dead are revealed -----
\* C25: every dead seat whose body was not concealed has revealed = TRUE.
C25_DeadAreRevealed ==
    \A s \in DOMAIN players :
        (~players[s].alive /\ s \notin cleaned_bodies) => players[s].revealed

\* ----- the order of the passes -----
\* The seat is the actor of no queued execute: no demotion can change its
\* role this night.
NeverJailor(s) ==
    \A i \in OfType(resolved.acts, {"jail_execute"}) : resolved.acts[i].actor # s

\* C26: a seat executed this night has the role and the faction it had
\* before the night, whatever conversion was queued for it (the execute
\* comes before the conversions).
C26_ExecutedKeepsRole ==
    InResolution =>
        \A i \in OfType(resolved.acts, {"jail_execute"}) :
            LET t == resolved.acts[i].target
            IN (Executed(i) /\ NeverJailor(t))
                   => /\ players[t].role = resolved.before[t].role
                      /\ players[t].faction = resolved.before[t].faction

\* C27: a seat a queued jail names has, after the night, the role and the
\* faction it had before, whatever conversion was queued for it.
C27_JailBlocksConversion ==
    InResolution =>
        \A s \in JailTargets \cap Seats :
            NeverJailor(s)
                => /\ players[s].role = resolved.before[s].role
                   /\ players[s].faction = resolved.before[s].faction

\* ----- faction visibility -----
\* The seat holds a role hidden until contacted and is not contacted.
Hidden(p) == players[p].role \in {"Fanatic", "Spy"} /\ ~players[p].contacted

\* The role that leads a faction.
LeaderOf(f) == IF f = "Cult" THEN "Cult Leader" ELSE "Godfather"

\* The lists last built are those of the present roster: the controller is
\* not inside a resolution.
MatesBuilt == controller_task # "resolving"

\* C28: the list built for a viewer holds a hidden member of the viewer's
\* faction when the viewer is the faction's leader or that member, and does
\* not hold it when the viewer is neither the leader nor of the member's
\* role.
C28_HiddenMates ==
    MatesBuilt =>
        \A p \in Seats, v \in Seats :
            (Hidden(p) /\ players[v].faction = players[p].faction)
                => /\ (players[v].role = LeaderOf(players[p].faction) \/ v = p)
                        => p \in mates[v]
                   /\ (/\ players[v].role # LeaderOf(players[p].faction)
                       /\ players[v].role # players[p].role)
                        => p \notin mates[v]

\* ----- the end of the session -----
\* end_game runs: the controller reaches one of the points after its
\* broadcasts of the winner and of the final roles.
EndGameRuns ==
    /\ controller_task' # controller_task
    /\ controller_task' \in {"won1", "won2", "verdict_won"}

\* C29: end_game announces the winner and the final roles at most once: it
\* never runs when a winner has been announced already.
C29_ReportedOnce == [][EndGameRuns => ~winReported]_vars

\* C30: the faction the win check declares the winner has a living member
\* at that moment.
C30_WinnerLives ==
    [][(EndGameRuns /\ winner' # None)
        => \E s \in Seats : players'[s].alive /\ players'[s].faction = winner']_vars

\* ----- the execute privilege -----
\* C31: a queued execute killed its target this night only if its actor was
\* a living seat that held the execute privilege when the night began (a
\* seat that holds it when the execute is applied held it then, since the
\* privilege is never given back and the dead stay dead).
C31_ExecuteNeedsPrivilege ==
    InResolution =>
        \A i \in OfType(resolved.acts, {"jail_execute"}) :
            Executed(i)
                => /\ resolved.acts[i].actor \in Seats
                   /\ resolved.before[resolved.acts[i].actor].alive
                   /\ resolved.before[resolved.acts[i].actor].jailor_has_execute

====
